---- MODULE Spec2Model ----
(***************************************************************************)
(* Model of the audio server of instant-translator (src/process_audio.py): *)
(* the ConnectionManager (registry + per-connection byte buffers), the     *)
(* per-connection coroutine audio_endpoint, and ConnectionManager.broadcast.*)
(*                                                                         *)
(* Spec is the server as the repository runs it: any number of             *)
(* audio_endpoint coroutines on one event loop.  Nothing in the repository *)
(* calls broadcast, so SpecBroadcast gives it a caller: a collaborator     *)
(* task on the same event loop, while connections come and go.             *)
(*                                                                         *)
(* SpecManager calls the ConnectionManager's methods directly, in any     *)
(* order and for any connection, as a caller of the class may.  SpecClient *)
(* and SpecClientFair are the microphone client (src/stream_audio.py).     *)
(*                                                                         *)
(* One TLA+ step is one run of a coroutine between two suspension points   *)
(* (await): asyncio runs that stretch of code without interleaving.        *)
(***************************************************************************)
EXTENDS Integers, Sequences, FiniteSets, TLC

\* ------------------------------------------------------------------ bounds
NumSessions == 2      \* connections the server accepts in a run
MaxRecv == 8          \* bytes the server receives in a run, all connections
MaxChunk == 3         \* largest inbound frame, in bytes
MaxBroadcasts == 1    \* calls of broadcast in a run
MaxQueue == 3         \* chunks the client's queue is let grow to
MaxMessages == 2      \* results the client receives in a run

\* asyncio.Queue() is built without a maxsize; 0 means no limit
maxsize == 0

\* BUFFER_SIZE = int(SAMPLE_RATE * BUFFER_DURATION * 4) is 192000 in the
\* source; the model keeps the comparison and scales the number down.  4 is
\* one float32 sample, so lengths 4, 5, 6 cover whole and ragged windows.
BUFFER_SIZE == 4
\* np.frombuffer(dtype=float32) needs a whole number of 4-byte items
ItemSize == 4

Sessions == 1..NumSessions

VARIABLES
    active_connections, \* ConnectionManager.active_connections : set
    audio_buffer,       \* ConnectionManager.audio_buffer : dict ws -> bytes
    pc,                 \* where each audio_endpoint coroutine is suspended
    peer,               \* the remote end of each connection: "open" | "closed"
    closed_at,          \* history: where the coroutine was when the peer closed
    client_state,       \* WebSocket.client_state of each connection
    buffer,             \* audio_endpoint's local `buffer`
    transcription,      \* audio_endpoint's local `transcription`
    translation,        \* audio_endpoint's local `translation`
    received,           \* history: bytes receive_bytes() returned, in order
    windows,            \* history: arguments of transcribe_audio, in order
    sent,               \* history: results handed to websocket.send_text
    delivered,          \* history: results that reached the open peer
    bpc,                \* broadcast: "idle" | "iter" | "send" | "done" | "raised"
    bused,              \* broadcast: set size the iterator remembered
    bpos,               \* broadcast: iterator position in the set's table
    bcur,               \* broadcast: connection of the send in flight (0: none)
    bcount,             \* broadcast: calls so far
    bstart,             \* history: the set when the current call began
    bgot,               \* history: connections the current payload reached
    bfailed,            \* history: connections whose send raised in this call
    blost,              \* history: connections whose send returned unheard
    last_call,          \* the last direct call of a ConnectionManager method
    is_recording,       \* AudioTranslatorClient.is_recording
    websocket,          \* AudioTranslatorClient.websocket: "None" | "connection"
    conn,               \* the client's connection: "none" | "open" | "closed"
    audio_queue,        \* AudioTranslatorClient.audio_queue
    stream,             \* the sd.InputStream: "off" | "on" (callbacks fire)
    cpc,                \* where start_recording is
    spc,                \* where send_audio_data is
    rpc,                \* where receive_translations is
    send_event,         \* history: what send_audio_data's loop did last
    displayed           \* history: results display_translation has shown

vars == <<active_connections, audio_buffer, pc, peer, closed_at, client_state, buffer,
          transcription, translation, received, windows, sent, delivered,
          bpc, bused, bpos, bcur, bcount, bstart, bgot, bfailed, blost,
          last_call, is_recording, websocket, conn, audio_queue, stream,
          cpc, spc, rpc, send_event, displayed>>

sessionVars == <<pc, peer, closed_at, client_state, buffer, transcription, translation,
                 received, windows, sent, delivered>>
managerVars == <<active_connections, audio_buffer>>
broadcastVars == <<bpc, bused, bpos, bcur, bcount, bstart, bgot, bfailed, blost>>
clientVars == <<is_recording, websocket, conn, audio_queue, stream, cpc, spc, rpc,
                send_event, displayed>>
serverVars == <<sessionVars, managerVars, broadcastVars, last_call>>
\* what the server's coroutines never touch
outsideVars == <<last_call, clientVars>>

\* ----------------------------------------------------------------- helpers
\* The n bytes a connection delivers after its first k: each byte carries
\* its connection and its position in the stream, so loss, duplication,
\* reordering and cross-connection mixing are all visible.
Chunk(ws, k, n) == [i \in 1..n |-> <<ws, k + i>>]

RECURSIVE Concat(_)
Concat(ss) == IF ss = <<>> THEN <<>> ELSE Head(ss) \o Concat(Tail(ss))

IsPrefix(a, b) == Len(a) <= Len(b) /\ SubSeq(b, 1, Len(a)) = a

Restrict(f, S) == [x \in S |-> f[x]]

\* ------------------------------------------------------ ConnectionManager
\* connect(): after the accept, add to the set and start an empty buffer
connect_connections(ac, ws) == ac \cup {ws}
connect_buffer(ab, ws) == [x \in DOMAIN ab \cup {ws} |-> IF x = ws THEN <<>> ELSE ab[x]]

\* set.remove(x), del d[x] and d[x] raise KeyError when x is absent
KeyError(keys, k) == k \notin keys

\* mutant: disconnect forgets the set
disconnect_connections_Kept(ac, ws) == ac

\* mutant: disconnect forgets the dict
disconnect_buffer_Kept(ab, ws) == ab

\* disconnect(): guarded removal from the set and from the dict
disconnect_connections(ac, ws) == IF ws \in ac THEN ac \ {ws} ELSE ac
disconnect_buffer(ab, ws) == IF ws \in DOMAIN ab THEN Restrict(ab, DOMAIN ab \ {ws}) ELSE ab

\* mutant: the two `if websocket in ...` tests are missing
disconnect_raises_Unguarded(ac, ab, ws) ==
    KeyError(ac, ws) \/ KeyError(DOMAIN ab, ws)

\* disconnect() raises when a removal it reaches finds its key absent
disconnect_raises(ac, ab, ws) ==
    \/ ws \in ac /\ KeyError(ac, ws)
    \/ ws \in DOMAIN ab /\ KeyError(DOMAIN ab, ws)

\* mutant: one buffer shared by every connection
add_audio_chunk_Shared(ab, ws, audio_data) ==
    IF ws \in DOMAIN ab THEN [x \in DOMAIN ab |-> ab[x] \o audio_data] ELSE ab

add_audio_chunk(ab, ws, audio_data) ==
    IF ws \in DOMAIN ab THEN [ab EXCEPT ![ws] = @ \o audio_data] ELSE ab

\* `self.audio_buffer[websocket] += audio_data` behind its membership test
add_audio_chunk_raises(ab, ws) == ws \in DOMAIN ab /\ KeyError(DOMAIN ab, ws)

get_audio_buffer(ab, ws) == IF ws \in DOMAIN ab THEN ab[ws] ELSE <<>>

\* mutant: the clear assigns without the membership test
clear_audio_buffer_Recreate(ab, ws) ==
    [x \in DOMAIN ab \cup {ws} |-> IF x = ws THEN <<>> ELSE ab[x]]

\* mutant: the clear empties every connection's buffer
clear_audio_buffer_All(ab, ws) ==
    IF ws \in DOMAIN ab THEN [x \in DOMAIN ab |-> <<>>] ELSE ab

\* mutant: the clear is forgotten
clear_audio_buffer_Kept(ab, ws) == ab

clear_audio_buffer(ab, ws) ==
    IF ws \in DOMAIN ab THEN [ab EXCEPT ![ws] = <<>>] ELSE ab

\* ------------------------------------------------------------- pipeline
\* convert_audio_to_wav: np.frombuffer raises on a length that is no
\* multiple of the item size; the except clause turns that into b"".
\* A successful conversion is never empty (the WAV header alone is 44 bytes).
convert_audio_to_wav(audio_data) ==
    IF Len(audio_data) % ItemSize # 0 THEN "" ELSE "wav"

\* What the transcription engine can do with one call.
EngineOutcomes == {"text", "empty", "error"}

\* mutant: the `if not wav_data` test is missing
transcribe_audio_Unchecked(audio_data, outcome, label) ==
    IF audio_data = <<>> THEN <<>>
    ELSE IF outcome = "text" THEN <<"original", label>>
    ELSE <<>>

\* transcribe_audio: "" on empty input, on a failed conversion, on an engine
\* error and on an empty engine answer; otherwise the text, which the model
\* labels with the connection and the number of the window it came from.
transcribe_audio(audio_data, outcome, label) ==
    IF audio_data = <<>> THEN <<>>
    ELSE IF convert_audio_to_wav(audio_data) = "" THEN <<>>
    ELSE IF outcome = "text" THEN <<"original", label>>
    ELSE <<>>

\* translate_text: "" on blank text, on an engine error and on an empty
\* engine answer; otherwise the translation of that text.
translate_text(text, outcome) ==
    IF text = <<>> THEN <<>>
    ELSE IF outcome = "text" THEN <<"translation", text[2]>>
    ELSE <<>>

\* mutant: the comparison is off by one
BufferReady_Early(buf) == Len(buf) + 1 >= BUFFER_SIZE

\* mutant: strict comparison
BufferReady_Strict(buf) == Len(buf) > BUFFER_SIZE

\* `len(buffer) >= BUFFER_SIZE`
BufferReady(buf) == Len(buf) >= BUFFER_SIZE

RECURSIVE SumLen(_, _)
SumLen(f, S) ==
    IF S = {} THEN 0
    ELSE LET x == CHOOSE y \in S : TRUE IN Len(f[x]) + SumLen(f, S \ {x})

\* bytes received so far over all connections (bounds the run)
TotalReceived == SumLen(received, Sessions)

\* -------------------------------------------------------------------- Init
Init ==
    /\ active_connections = {}
    /\ audio_buffer = <<>>
    /\ pc = [ws \in Sessions |-> "connecting"]
    /\ peer = [ws \in Sessions |-> "open"]
    /\ closed_at = [ws \in Sessions |-> "open"]
    /\ client_state = [ws \in Sessions |-> "CONNECTING"]
    /\ buffer = [ws \in Sessions |-> <<>>]
    /\ transcription = [ws \in Sessions |-> <<>>]
    /\ translation = [ws \in Sessions |-> <<>>]
    /\ received = [ws \in Sessions |-> <<>>]
    /\ windows = [ws \in Sessions |-> <<>>]
    /\ sent = [ws \in Sessions |-> <<>>]
    /\ delivered = [ws \in Sessions |-> <<>>]
    /\ bpc = "idle"
    /\ bused = 0
    /\ bpos = 0
    /\ bcur = 0
    /\ bcount = 0
    /\ bstart = {}
    /\ bgot = {}
    /\ bfailed = {}
    /\ blost = {}
    /\ last_call = [op |-> "none", ws |-> 0, was |-> FALSE, raised |-> FALSE, result |-> <<>>]
    /\ is_recording = FALSE
    /\ websocket = "None"
    /\ conn = "none"
    /\ audio_queue = <<>>
    /\ stream = "off"
    /\ cpc = "start"
    /\ spc = "idle"
    /\ rpc = "idle"
    /\ send_event = "none"
    /\ displayed = 0

\* ---------------------------------------------------------- audio_endpoint
\* manager.connect(websocket): accept, register, start an empty buffer.
Connect(ws) ==
    /\ pc[ws] = "connecting"
    /\ peer[ws] = "open"
    /\ active_connections' = connect_connections(active_connections, ws)
    /\ audio_buffer' = connect_buffer(audio_buffer, ws)
    /\ client_state' = [client_state EXCEPT ![ws] = "CONNECTED"]
    /\ pc' = [pc EXCEPT ![ws] = "recv"]
    /\ UNCHANGED <<peer, closed_at, buffer, transcription, translation, received, windows,
                   sent, delivered>>
    /\ UNCHANGED broadcastVars
    /\ UNCHANGED outsideVars

\* The remote end closes the connection; the server learns of it only at
\* its next receive or send on that connection.
PeerClose(ws) ==
    /\ pc[ws] \in {"recv", "transcribe", "translate", "send"}
    /\ peer[ws] = "open"
    /\ peer' = [peer EXCEPT ![ws] = "closed"]
    /\ closed_at' = [closed_at EXCEPT ![ws] = pc[ws]]
    /\ UNCHANGED <<pc, client_state, buffer, transcription, translation,
                   received, windows, sent, delivered>>
    /\ UNCHANGED managerVars
    /\ UNCHANGED broadcastVars
    /\ UNCHANGED outsideVars

\* mutant: frames are read and appended by a reader that does not wait for
\* the cycle in flight
ReceiveBytes_Eager(ws, n) ==
    /\ pc[ws] \in {"recv", "transcribe", "translate", "send"}
    /\ peer[ws] = "open"
    /\ TotalReceived + n <= MaxRecv
    /\ LET audio_data == Chunk(ws, Len(received[ws]), n)
           ab == add_audio_chunk(audio_buffer, ws, audio_data)
           buf == get_audio_buffer(ab, ws)
       IN  /\ audio_buffer' = ab
           /\ received' = [received EXCEPT ![ws] = @ \o audio_data]
           /\ buffer' = [buffer EXCEPT ![ws] = buf]
           /\ IF BufferReady(buf)
              THEN /\ pc' = [pc EXCEPT ![ws] = "transcribe"]
                   /\ windows' = [windows EXCEPT ![ws] = Append(@, buf)]
              ELSE /\ UNCHANGED <<pc, windows>>
    /\ UNCHANGED <<active_connections, peer, closed_at, client_state, transcription,
                   translation, sent, delivered>>
    /\ UNCHANGED broadcastVars
    /\ UNCHANGED outsideVars

\* One pass of the loop from receive_bytes() returning a frame up to the next
\* await: append, read the buffer back, compare with BUFFER_SIZE, and either
\* go round again or call transcribe_audio(buffer).
ReceiveBytes(ws, n) ==
    /\ pc[ws] = "recv"
    /\ peer[ws] = "open"
    /\ TotalReceived + n <= MaxRecv
    /\ LET audio_data == Chunk(ws, Len(received[ws]), n)
           ab == add_audio_chunk(audio_buffer, ws, audio_data)
           buf == get_audio_buffer(ab, ws)
       IN  /\ audio_buffer' = ab
           /\ received' = [received EXCEPT ![ws] = @ \o audio_data]
           /\ buffer' = [buffer EXCEPT ![ws] = buf]
           /\ IF BufferReady(buf)
              THEN /\ pc' = [pc EXCEPT ![ws] = "transcribe"]
                   /\ windows' = [windows EXCEPT ![ws] = Append(@, buf)]
              ELSE /\ UNCHANGED <<pc, windows>>
    /\ UNCHANGED <<active_connections, peer, closed_at, client_state, transcription,
                   translation, sent, delivered>>
    /\ UNCHANGED broadcastVars
    /\ UNCHANGED outsideVars

\* receive_bytes() raises WebSocketDisconnect: the peer has closed.
ReceiveDisconnect(ws) ==
    /\ pc[ws] = "recv"
    /\ peer[ws] = "closed"
    /\ client_state' = [client_state EXCEPT ![ws] = "DISCONNECTED"]
    /\ active_connections' = disconnect_connections(active_connections, ws)
    /\ audio_buffer' = disconnect_buffer(audio_buffer, ws)
    /\ pc' = [pc EXCEPT ![ws] = "closed"]
    /\ UNCHANGED <<peer, closed_at, buffer, transcription, translation, received, windows,
                   sent, delivered>>
    /\ UNCHANGED broadcastVars
    /\ UNCHANGED outsideVars

\* mutant: only WebSocketDisconnect is handled; the coroutine ends with the
\* connection still registered
ReceiveError_Unhandled(ws) ==
    /\ pc[ws] = "recv"
    /\ peer[ws] = "open"
    /\ pc' = [pc EXCEPT ![ws] = "closed"]
    /\ UNCHANGED <<peer, closed_at, client_state, buffer, transcription, translation,
                   received, windows, sent, delivered>>
    /\ UNCHANGED managerVars
    /\ UNCHANGED broadcastVars
    /\ UNCHANGED outsideVars

\* receive_bytes() raises another exception (a text frame has no "bytes").
ReceiveError(ws) ==
    /\ pc[ws] = "recv"
    /\ peer[ws] = "open"
    /\ active_connections' = disconnect_connections(active_connections, ws)
    /\ audio_buffer' = disconnect_buffer(audio_buffer, ws)
    /\ pc' = [pc EXCEPT ![ws] = "closed"]
    /\ UNCHANGED <<peer, closed_at, client_state, buffer, transcription, translation,
                   received, windows, sent, delivered>>
    /\ UNCHANGED broadcastVars
    /\ UNCHANGED outsideVars

\* mutant: a close of the peer cancels the call in flight and removes the
\* connection at once
TranscribeReturn_Cancelled(ws, outcome) ==
    /\ pc[ws] = "transcribe"
    /\ LET text == transcribe_audio(buffer[ws], outcome, <<ws, Len(windows[ws])>>)
       IN  IF peer[ws] = "closed"
           THEN /\ active_connections' = disconnect_connections(active_connections, ws)
                /\ audio_buffer' = disconnect_buffer(audio_buffer, ws)
                /\ pc' = [pc EXCEPT ![ws] = "closed"]
                /\ UNCHANGED transcription
           ELSE /\ transcription' = [transcription EXCEPT ![ws] = text]
                /\ UNCHANGED active_connections
                /\ IF text # <<>>
                   THEN /\ pc' = [pc EXCEPT ![ws] = "translate"]
                        /\ UNCHANGED audio_buffer
                   ELSE /\ pc' = [pc EXCEPT ![ws] = "recv"]
                        /\ audio_buffer' = clear_audio_buffer(audio_buffer, ws)
    /\ UNCHANGED <<peer, closed_at, client_state, buffer, translation,
                   received, windows, sent, delivered>>
    /\ UNCHANGED broadcastVars
    /\ UNCHANGED outsideVars

\* transcribe_audio(buffer) returns; empty text skips to the clear.
TranscribeReturn(ws, outcome) ==
    /\ pc[ws] = "transcribe"
    /\ LET text == transcribe_audio(buffer[ws], outcome, <<ws, Len(windows[ws])>>)
       IN  /\ transcription' = [transcription EXCEPT ![ws] = text]
           /\ IF text # <<>>
              THEN /\ pc' = [pc EXCEPT ![ws] = "translate"]
                   /\ UNCHANGED audio_buffer
              ELSE /\ pc' = [pc EXCEPT ![ws] = "recv"]
                   /\ audio_buffer' = clear_audio_buffer(audio_buffer, ws)
    /\ UNCHANGED <<active_connections, peer, closed_at, client_state, buffer, translation,
                   received, windows, sent, delivered>>
    /\ UNCHANGED broadcastVars
    /\ UNCHANGED outsideVars

\* mutant: the `if translation:` test is missing
TranslateReturn_Unguarded(ws, outcome) ==
    /\ pc[ws] = "translate"
    /\ LET text == translate_text(transcription[ws], outcome)
       IN  /\ translation' = [translation EXCEPT ![ws] = text]
           /\ pc' = [pc EXCEPT ![ws] = "send"]
           /\ sent' = [sent EXCEPT ![ws] = Append(@, <<transcription[ws], text>>)]
           /\ UNCHANGED audio_buffer
    /\ UNCHANGED <<active_connections, peer, closed_at, client_state, buffer, transcription,
                   received, windows, delivered>>
    /\ UNCHANGED broadcastVars
    /\ UNCHANGED outsideVars

\* translate_text(transcription) returns; non-empty text calls send_text.
TranslateReturn(ws, outcome) ==
    /\ pc[ws] = "translate"
    /\ LET text == translate_text(transcription[ws], outcome)
       IN  /\ translation' = [translation EXCEPT ![ws] = text]
           /\ IF text # <<>>
              THEN /\ pc' = [pc EXCEPT ![ws] = "send"]
                   /\ sent' = [sent EXCEPT ![ws] = Append(@, <<transcription[ws], text>>)]
                   /\ UNCHANGED audio_buffer
              ELSE /\ pc' = [pc EXCEPT ![ws] = "recv"]
                   /\ audio_buffer' = clear_audio_buffer(audio_buffer, ws)
                   /\ UNCHANGED sent
    /\ UNCHANGED <<active_connections, peer, closed_at, client_state, buffer, transcription,
                   received, windows, delivered>>
    /\ UNCHANGED broadcastVars
    /\ UNCHANGED outsideVars

\* mutant: the result goes out through manager.broadcast, to every
\* registered connection
SendReturn_ToAll(ws, reaches) ==
    /\ pc[ws] = "send"
    /\ reaches = (peer[ws] = "open")
    /\ delivered' = [x \in Sessions |->
                        IF x \in active_connections /\ peer[x] = "open"
                        THEN Append(delivered[x], sent[ws][Len(sent[ws])])
                        ELSE delivered[x]]
    /\ audio_buffer' = clear_audio_buffer(audio_buffer, ws)
    /\ pc' = [pc EXCEPT ![ws] = "recv"]
    /\ UNCHANGED <<active_connections, peer, closed_at, client_state, buffer, transcription,
                   translation, received, windows, sent>>
    /\ UNCHANGED broadcastVars
    /\ UNCHANGED outsideVars

\* send_text returns normally: the message reaches an open peer and is lost
\* on a closed one; then the buffer is cleared and the loop goes round.
SendReturn(ws, reaches) ==
    /\ pc[ws] = "send"
    /\ reaches = (peer[ws] = "open")
    /\ delivered' = [delivered EXCEPT ![ws] =
                        IF reaches THEN Append(@, sent[ws][Len(sent[ws])]) ELSE @]
    /\ audio_buffer' = clear_audio_buffer(audio_buffer, ws)
    /\ pc' = [pc EXCEPT ![ws] = "recv"]
    /\ UNCHANGED <<active_connections, peer, closed_at, client_state, buffer, transcription,
                   translation, received, windows, sent>>
    /\ UNCHANGED broadcastVars
    /\ UNCHANGED outsideVars

\* send_text raises on the closed connection: except Exception, disconnect.
SendError(ws) ==
    /\ pc[ws] = "send"
    /\ peer[ws] = "closed"
    /\ active_connections' = disconnect_connections(active_connections, ws)
    /\ audio_buffer' = disconnect_buffer(audio_buffer, ws)
    /\ pc' = [pc EXCEPT ![ws] = "closed"]
    /\ UNCHANGED <<peer, closed_at, client_state, buffer, transcription, translation,
                   received, windows, sent, delivered>>
    /\ UNCHANGED broadcastVars
    /\ UNCHANGED outsideVars

Next ==
    \/ \E ws \in Sessions : Connect(ws)
    \/ \E ws \in Sessions : PeerClose(ws)
    \/ \E ws \in Sessions, n \in 0..MaxChunk : ReceiveBytes(ws, n)
    \/ \E ws \in Sessions : ReceiveDisconnect(ws)
    \/ \E ws \in Sessions : ReceiveError(ws)
    \/ \E ws \in Sessions, o \in EngineOutcomes : TranscribeReturn(ws, o)
    \/ \E ws \in Sessions, o \in EngineOutcomes : TranslateReturn(ws, o)
    \/ \E ws \in Sessions, r \in BOOLEAN : SendReturn(ws, r)
    \/ \E ws \in Sessions : SendError(ws)

Spec == Init /\ [][Next]_vars

\* --------------------------------------------------------------- broadcast
\* A message sent on a connection reaches the peer while the peer is open
\* and the connection's endpoint has not returned (returning closes it).
Reachable(ws) == peer[ws] = "open" /\ pc[ws] # "closed"

\* The first connection after table position pos that is in the set and
\* passes the client_state test; 0 when the table is exhausted.  Connections
\* sit in the table in the order of their identity.
NextConnected(ac, cs, pos) ==
    LET cand == {c \in ac : c > pos /\ cs[c] = "CONNECTED"}
    IN  IF cand = {} THEN 0 ELSE CHOOSE c \in cand : \A d \in cand : c <= d

\* `for connection in self.active_connections` resumed at pos: the set
\* iterator raises RuntimeError when the set's size is no longer the size it
\* remembered; otherwise the loop runs to its next send_text or to its end.
IterNext(ac, cs, used, pos) ==
    IF Cardinality(ac) # used
    THEN [bpc |-> "raised", bpos |-> 0, bcur |-> 0]
    ELSE LET c == NextConnected(ac, cs, pos)
         IN  IF c = 0
             THEN [bpc |-> "done", bpos |-> 0, bcur |-> 0]
             ELSE [bpc |-> "send", bpos |-> c, bcur |-> c]

Resume(it) ==
    /\ bpc' = it.bpc
    /\ bpos' = it.bpos
    /\ bcur' = it.bcur

\* A collaborator calls manager.broadcast(message): the iterator is made
\* over the live set and the loop runs to its first send_text.
BroadcastStart ==
    /\ bpc \in {"idle", "done", "raised"}
    /\ bcount < MaxBroadcasts
    /\ bcount' = bcount + 1
    /\ bused' = Cardinality(active_connections)
    /\ bstart' = active_connections
    /\ bgot' = {}
    /\ bfailed' = {}
    /\ blost' = {}
    /\ Resume(IterNext(active_connections, client_state,
                       Cardinality(active_connections), 0))
    /\ UNCHANGED sessionVars
    /\ UNCHANGED managerVars
    /\ UNCHANGED outsideVars

\* connection.send_text(message) returns normally; the loop goes on.
BroadcastSendReturn(reaches) ==
    /\ bpc = "send"
    /\ reaches = Reachable(bcur)
    /\ bgot' = IF reaches THEN bgot \cup {bcur} ELSE bgot
    /\ blost' = IF reaches THEN blost ELSE blost \cup {bcur}
    /\ Resume(IterNext(active_connections, client_state, bused, bpos))
    /\ UNCHANGED <<bused, bcount, bstart, bfailed>>
    /\ UNCHANGED sessionVars
    /\ UNCHANGED managerVars
    /\ UNCHANGED outsideVars

\* mutant: the except clause takes the failed connection out of the registry
BroadcastSendError_Removes ==
    /\ bpc = "send"
    /\ ~Reachable(bcur)
    /\ bfailed' = bfailed \cup {bcur}
    /\ active_connections' = disconnect_connections(active_connections, bcur)
    /\ audio_buffer' = disconnect_buffer(audio_buffer, bcur)
    /\ Resume(IterNext(active_connections', client_state, bused, bpos))
    /\ UNCHANGED <<bused, bcount, bstart, bgot, blost>>
    /\ UNCHANGED sessionVars
    /\ UNCHANGED outsideVars

\* mutant: no try/except round the send; the exception leaves broadcast
BroadcastSendError_Raised ==
    /\ bpc = "send"
    /\ ~Reachable(bcur)
    /\ bfailed' = bfailed \cup {bcur}
    /\ Resume([bpc |-> "raised", bpos |-> 0, bcur |-> 0])
    /\ UNCHANGED <<bused, bcount, bstart, bgot, blost>>
    /\ UNCHANGED sessionVars
    /\ UNCHANGED managerVars
    /\ UNCHANGED outsideVars

\* connection.send_text(message) raises; the except clause logs it and the
\* loop goes on.
BroadcastSendError ==
    /\ bpc = "send"
    /\ ~Reachable(bcur)
    /\ bfailed' = bfailed \cup {bcur}
    /\ Resume(IterNext(active_connections, client_state, bused, bpos))
    /\ UNCHANGED <<bused, bcount, bstart, bgot, blost>>
    /\ UNCHANGED sessionVars
    /\ UNCHANGED managerVars
    /\ UNCHANGED outsideVars

\* broadcast and the connections' comings and goings, on one event loop
NextBroadcast ==
    \/ \E ws \in Sessions : Connect(ws)
    \/ \E ws \in Sessions : PeerClose(ws)
    \/ \E ws \in Sessions : ReceiveDisconnect(ws)
    \/ \E ws \in Sessions : ReceiveError(ws)
    \/ BroadcastStart
    \/ \E r \in BOOLEAN : BroadcastSendReturn(r)
    \/ BroadcastSendError

SpecBroadcast == Init /\ [][NextBroadcast]_vars

\* The whole server: every connection's audio_endpoint and a broadcast.
NextSystem ==
    \/ Next
    \/ BroadcastStart
    \/ \E r \in BOOLEAN : BroadcastSendReturn(r)
    \/ BroadcastSendError

\* The event loop resumes every coroutine whose await has completed: a
\* receive or a send on a closed connection raises, a send returns, and
\* broadcast goes on.  Nothing makes a peer send or close, and the engine
\* calls carry no timeout, so those steps get no fairness.
SpecSystemFair ==
    /\ Init /\ [][NextSystem]_vars
    /\ \A ws \in Sessions : WF_vars(ReceiveDisconnect(ws))
    /\ \A ws \in Sessions : WF_vars(\E r \in BOOLEAN : SendReturn(ws, r))
    /\ \A ws \in Sessions : WF_vars(SendError(ws))
    /\ WF_vars(\E r \in BOOLEAN : BroadcastSendReturn(r))
    /\ WF_vars(BroadcastSendError)

\* ------------------------------------------- ConnectionManager, called directly
\* The class is a module-level object; its methods can be called in any
\* order and for any connection.  last_call records the call just made:
\* whether its connection was registered before it, whether it raised, and
\* what it returned.
Known(ws) == ws \in active_connections \/ ws \in DOMAIN audio_buffer

Call(op, ws, raised, result) ==
    [op |-> op, ws |-> ws, was |-> Known(ws), raised |-> raised, result |-> result]

endpointLocals == <<pc, peer, closed_at, buffer, transcription, translation, windows,
                 sent, delivered>>

\* connect(): websocket.accept() needs a connection not accepted before
CallConnect(ws) ==
    /\ client_state[ws] = "CONNECTING"
    /\ client_state' = [client_state EXCEPT ![ws] = "CONNECTED"]
    /\ active_connections' = connect_connections(active_connections, ws)
    /\ audio_buffer' = connect_buffer(audio_buffer, ws)
    /\ last_call' = Call("connect", ws, FALSE, <<>>)
    /\ UNCHANGED <<received, endpointLocals, broadcastVars, clientVars>>

CallDisconnect(ws) ==
    LET raised == disconnect_raises(active_connections, audio_buffer, ws)
    IN  /\ IF raised
              THEN UNCHANGED managerVars
              ELSE /\ active_connections' = disconnect_connections(active_connections, ws)
                   /\ audio_buffer' = disconnect_buffer(audio_buffer, ws)
        /\ last_call' = Call("disconnect", ws, raised, <<>>)
        /\ UNCHANGED <<client_state, received, endpointLocals, broadcastVars, clientVars>>

CallAdd(ws, n) ==
    LET audio_data == Chunk(ws, Len(received[ws]), n)
        raised == add_audio_chunk_raises(audio_buffer, ws)
    IN  /\ TotalReceived + n <= MaxRecv
        /\ received' = [received EXCEPT ![ws] = @ \o audio_data]
        /\ audio_buffer' = IF raised THEN audio_buffer
                           ELSE add_audio_chunk(audio_buffer, ws, audio_data)
        /\ last_call' = Call("add", ws, raised, <<>>)
        /\ UNCHANGED <<active_connections, client_state, endpointLocals, broadcastVars,
                       clientVars>>

CallGet(ws) ==
    /\ last_call' = Call("get", ws, FALSE, get_audio_buffer(audio_buffer, ws))
    /\ UNCHANGED <<managerVars, client_state, received, endpointLocals, broadcastVars,
                   clientVars>>

CallClear(ws) ==
    /\ audio_buffer' = clear_audio_buffer(audio_buffer, ws)
    /\ last_call' = Call("clear", ws, FALSE, <<>>)
    /\ UNCHANGED <<active_connections, client_state, received, endpointLocals,
                   broadcastVars, clientVars>>

NextManager ==
    \/ \E ws \in Sessions : CallConnect(ws)
    \/ \E ws \in Sessions : CallDisconnect(ws)
    \/ \E ws \in Sessions : \E n \in 1..MaxChunk : CallAdd(ws, n)
    \/ \E ws \in Sessions : CallGet(ws)
    \/ \E ws \in Sessions : CallClear(ws)

SpecManager == Init /\ [][NextManager]_vars

\* ------------------------------------------------- AudioTranslatorClient
\* asyncio.Queue.full(): never with maxsize 0
QueueFull(q) == maxsize > 0 /\ Len(q) >= maxsize

\* audio_callback: runs on the audio thread for every captured block while
\* the input stream is open.  The model stops capturing at MaxQueue chunks.
AudioCallback ==
    /\ stream = "on"
    /\ Len(audio_queue) < MaxQueue
    /\ audio_queue' = IF is_recording /\ ~QueueFull(audio_queue)
                        THEN Append(audio_queue, "chunk")
                        ELSE audio_queue
    /\ UNCHANGED <<is_recording, websocket, conn, stream, cpc, spc, rpc, send_event,
                   displayed>>
    /\ UNCHANGED serverVars

\* start_recording: the connect succeeds; the flag is set, the stream is
\* opened and gather starts the two loops, each running to its first await.
ConnectOk ==
    /\ cpc = "start"
    /\ websocket' = "connection"
    /\ conn' = "open"
    /\ is_recording' = TRUE
    /\ stream' = "on"
    /\ cpc' = "gather"
    /\ spc' = "get"
    /\ rpc' = "recv"
    /\ UNCHANGED <<audio_queue, send_event, displayed>>
    /\ UNCHANGED serverVars

\* start_recording: connect_to_server returned False
ConnectFail ==
    /\ cpc = "start"
    /\ cpc' = "returned"
    /\ UNCHANGED <<is_recording, websocket, conn, audio_queue, stream, spc, rpc,
                   send_event, displayed>>
    /\ UNCHANGED serverVars

\* The server (or the network) closes the connection.
ServerClose ==
    /\ cpc = "gather"
    /\ conn = "open"
    /\ conn' = "closed"
    /\ UNCHANGED <<is_recording, websocket, audio_queue, stream, cpc, spc, rpc,
                   send_event, displayed>>
    /\ UNCHANGED serverVars

\* send_audio_data: queue.get() returns a chunk; websocket.send is awaited
SendGet ==
    /\ spc = "get"
    /\ audio_queue # <<>>
    /\ audio_queue' = Tail(audio_queue)
    /\ spc' = IF websocket # "None" THEN "send"
              ELSE IF is_recording THEN "get" ELSE "done"
    /\ send_event' = "got"
    /\ UNCHANGED <<is_recording, websocket, conn, stream, cpc, rpc, displayed>>
    /\ UNCHANGED serverVars

\* send_audio_data: wait_for times out; `continue` re-tests the flag.  The
\* callback fills the queue from another thread without waking the loop, so
\* the timeout can also fire with a chunk waiting.
SendTimeout ==
    /\ spc = "get"
    /\ spc' = IF is_recording THEN "get" ELSE "done"
    /\ send_event' = "timeout"
    /\ UNCHANGED <<is_recording, websocket, conn, audio_queue, stream, cpc, rpc,
                   displayed>>
    /\ UNCHANGED serverVars

\* send_audio_data: websocket.send returns
SendOk ==
    /\ spc = "send"
    /\ conn = "open"
    /\ spc' = IF is_recording THEN "get" ELSE "done"
    /\ send_event' = "sent"
    /\ UNCHANGED <<is_recording, websocket, conn, audio_queue, stream, cpc, rpc,
                   displayed>>
    /\ UNCHANGED serverVars

\* mutant: the loop goes on after ConnectionClosed
SendClosed_Continue ==
    /\ spc = "send"
    /\ conn = "closed"
    /\ spc' = "get"
    /\ send_event' = "closed"
    /\ UNCHANGED <<is_recording, websocket, conn, audio_queue, stream, cpc, rpc,
                   displayed>>
    /\ UNCHANGED serverVars

\* send_audio_data: websocket.send raises ConnectionClosed; break
SendClosed ==
    /\ spc = "send"
    /\ conn = "closed"
    /\ spc' = "done"
    /\ send_event' = "closed"
    /\ UNCHANGED <<is_recording, websocket, conn, audio_queue, stream, cpc, rpc,
                   displayed>>
    /\ UNCHANGED serverVars

\* receive_translations: recv returns a message, which is displayed
RecvMessage ==
    /\ rpc = "recv"
    /\ conn = "open"
    /\ displayed < MaxMessages
    /\ displayed' = displayed + 1
    /\ rpc' = IF websocket # "None" THEN "recv" ELSE "done"
    /\ UNCHANGED <<is_recording, websocket, conn, audio_queue, stream, cpc, spc,
                   send_event>>
    /\ UNCHANGED serverVars

\* receive_translations: recv raises ConnectionClosed; break
RecvClosed ==
    /\ rpc = "recv"
    /\ conn = "closed"
    /\ rpc' = "done"
    /\ UNCHANGED <<is_recording, websocket, conn, audio_queue, stream, cpc, spc,
                   send_event, displayed>>
    /\ UNCHANGED serverVars

\* Ctrl+C: the gather is cancelled and each loop still running breaks on
\* CancelledError at its await.
Interrupt ==
    /\ cpc = "gather"
    /\ spc # "done" \/ rpc # "done"
    /\ spc' = "done"
    /\ rpc' = "done"
    /\ send_event' = IF spc # "done" THEN "cancelled" ELSE send_event
    /\ UNCHANGED <<is_recording, websocket, conn, audio_queue, stream, cpc, displayed>>
    /\ UNCHANGED serverVars

\* start_recording: gather has both results; the `with` block closes the
\* stream and cleanup() clears the flag and awaits websocket.close().
Cleanup ==
    /\ cpc = "gather"
    /\ spc = "done"
    /\ rpc = "done"
    /\ stream' = "off"
    /\ is_recording' = FALSE
    /\ cpc' = IF websocket # "None" THEN "closing" ELSE "done"
    /\ UNCHANGED <<websocket, conn, audio_queue, spc, rpc, send_event, displayed>>
    /\ UNCHANGED serverVars

\* cleanup: websocket.close() returns (or raises, which is logged)
CloseReturn ==
    /\ cpc = "closing"
    /\ conn' = "closed"
    /\ cpc' = "done"
    /\ UNCHANGED <<is_recording, websocket, audio_queue, stream, spc, rpc, send_event,
                   displayed>>
    /\ UNCHANGED serverVars

NextClient ==
    \/ AudioCallback
    \/ ConnectOk
    \/ ConnectFail
    \/ ServerClose
    \/ SendGet
    \/ SendTimeout
    \/ SendOk
    \/ SendClosed
    \/ RecvMessage
    \/ RecvClosed
    \/ Interrupt
    \/ Cleanup
    \/ CloseReturn

SpecClient == Init /\ [][NextClient]_vars

\* The event loop runs every coroutine that is ready, and the microphone
\* keeps delivering blocks while the stream is open.
SpecClientFair ==
    /\ SpecClient
    /\ WF_vars(AudioCallback)
    /\ WF_vars(SendGet)
    /\ WF_vars(SendOk)
    /\ WF_vars(SendClosed)
    /\ WF_vars(RecvClosed)
    /\ WF_vars(Cleanup)
    /\ WF_vars(CloseReturn)

\* ===================================================================== claims
InFlight == {"transcribe", "translate"}
InCycle == {"transcribe", "translate", "send"}
Registered(ws) == ws \in active_connections /\ ws \in DOMAIN audio_buffer
LastWindow(ws) == windows[ws][Len(windows[ws])]
\* the step ends a processing cycle of ws and returns it to receive_bytes
CycleCompletes(ws) == pc[ws] \in InCycle /\ pc'[ws] = "recv"

\* C1: every window handed to the pipeline is exactly the bytes the
\* connection appended since its previous reset, in arrival order; the
\* windows of a connection, concatenated, are a prefix of what it received
\* (with the waiting buffer, all of it); and the buffer is empty when a
\* cycle completes.
C1_WindowsOf(ws) ==
    /\ IsPrefix(Concat(windows[ws]), received[ws])
    /\ pc[ws] \in InCycle =>
          /\ windows[ws] # <<>>
          /\ buffer[ws] = LastWindow(ws)
          /\ Concat(windows[ws]) = received[ws]
    /\ pc[ws] = "recv" =>
          Concat(windows[ws]) \o audio_buffer[ws] = received[ws]
C1_WindowsArePrefix ==
    /\ [](\A ws \in Sessions : C1_WindowsOf(ws))
    /\ [][\A ws \in Sessions :
            CycleCompletes(ws) => Len(audio_buffer'[ws]) = 0]_vars
\* a connection has had two windows processed and is back at the receive
C1_Witness ==
    \E ws \in Sessions :
        /\ Len(windows[ws]) = 2
        /\ pc[ws] = "recv"
        /\ audio_buffer[ws] = <<>>

\* C2: after a frame is appended a cycle starts iff the buffer has reached
\* BUFFER_SIZE, one window per crossing; a connection waiting for its next
\* frame holds fewer than BUFFER_SIZE bytes.
C2_ReadyIffThreshold ==
    /\ [](\A ws \in Sessions :
            pc[ws] = "recv" => Len(audio_buffer[ws]) < BUFFER_SIZE)
    /\ [][\A ws \in Sessions :
            received'[ws] # received[ws] =>
              /\ (pc'[ws] = "transcribe") <=> (Len(audio_buffer'[ws]) >= BUFFER_SIZE)
              /\ Len(windows'[ws]) =
                    Len(windows[ws]) + (IF Len(audio_buffer'[ws]) >= BUFFER_SIZE THEN 1 ELSE 0)
              /\ pc'[ws] \in {"recv", "transcribe"}]_vars
\* a frame brought the buffer to exactly BUFFER_SIZE and started a cycle
C2_Witness ==
    \E ws \in Sessions :
        /\ pc[ws] = "transcribe"
        /\ Len(audio_buffer[ws]) = BUFFER_SIZE
        /\ Len(windows[ws]) = 1

\* C3: a connection's buffer and windows hold only its own bytes, and a step
\* that changes one connection's buffer (append, clear, disconnect) is a step
\* of that connection which leaves every other buffer as it was.
BufferOf(ab, ws) == IF ws \in DOMAIN ab THEN <<ab[ws]>> ELSE <<>>
OwnBytes(ws, bytes) == \A i \in 1..Len(bytes) : bytes[i][1] = ws
C3_SessionsIsolated ==
    /\ [](\A ws \in Sessions :
            /\ ws \in DOMAIN audio_buffer => OwnBytes(ws, audio_buffer[ws])
            /\ OwnBytes(ws, Concat(windows[ws])))
    /\ [][\A a \in Sessions :
            BufferOf(audio_buffer', a) # BufferOf(audio_buffer, a) =>
              \A b \in Sessions \ {a} :
                  BufferOf(audio_buffer', b) = BufferOf(audio_buffer, b)]_vars
\* two connections are in a processing cycle at once, each on its own window
C3_Witness ==
    \E a, b \in Sessions :
        /\ a # b
        /\ pc[a] \in InCycle /\ pc[b] \in InCycle
        /\ audio_buffer[a] # <<>> /\ audio_buffer[b] # <<>>

\* C4 as stated: a connection whose peer closed during an engine call is
\* removed without waiting for the call, so it is never seen past that call
\* except as closed, and the call's result is not handed to send_text.
C4_RemovedWithoutWaiting ==
    \A ws \in Sessions :
        closed_at[ws] \in InFlight => pc[ws] \in {closed_at[ws], "closed"}
\* C4 (amended): a connection whose peer closed during an engine call stays
\* registered until the call has returned; connections are removed only by
\* the coroutine's own receive or send; and the result of that call, though
\* it may be handed to send_text, never reaches the peer.
C4_RemovedAfterCallReturns ==
    /\ [](\A ws \in Sessions :
            closed_at[ws] \in InFlight =>
              /\ pc[ws] \in InFlight => Registered(ws)
              /\ Len(delivered[ws]) < Len(windows[ws]))
    /\ [][\A ws \in Sessions :
            /\ (ws \in active_connections /\ ws \notin active_connections') =>
                  pc[ws] \in {"recv", "send"}
            /\ delivered'[ws] # delivered[ws] => peer[ws] = "open"]_vars
\* the peer closed during transcription, the result of the window was handed
\* to send_text all the same, and the connection was removed only afterwards
C4_Witness ==
    \E ws \in Sessions :
        /\ closed_at[ws] = "transcribe"
        /\ pc[ws] = "closed"
        /\ Len(sent[ws]) = Len(windows[ws])
        /\ delivered[ws] = <<>>

\* C7: a cycle whose transcription or translation came back empty (engine
\* error, empty answer, undecodable window) sends nothing, leaves the
\* connection registered and receiving, and empties the buffer; no byte is
\* ever in two windows, and an undecodable window never reaches translation.
C7_Dropped(ws) ==
    /\ pc'[ws] = "recv"
    /\ sent'[ws] = sent[ws]
    /\ delivered'[ws] = delivered[ws]
    /\ ws \in active_connections'
    /\ ws \in DOMAIN audio_buffer'
    /\ audio_buffer'[ws] = <<>>
C7_NoRepeat(bytes) ==
    \A i, j \in 1..Len(bytes) : bytes[i] = bytes[j] => i = j
C7_FailedWindowDropped ==
    /\ [](\A ws \in Sessions :
            /\ C7_NoRepeat(Concat(windows[ws]))
            /\ pc[ws] \in {"translate", "send"} =>
                  /\ Len(LastWindow(ws)) % ItemSize = 0
                  /\ transcription[ws] # <<>>
            /\ Len(sent[ws]) <= Len(windows[ws]))
    /\ [][\A ws \in Sessions :
            /\ (pc[ws] = "transcribe" /\ pc'[ws] # "transcribe"
                    /\ transcription'[ws] = <<>>) => C7_Dropped(ws)
            /\ (pc[ws] = "translate" /\ pc'[ws] # "translate"
                    /\ translation'[ws] = <<>>) => C7_Dropped(ws)]_vars
\* an undecodable window was dropped and the connection went on receiving
C7_Witness ==
    \E ws \in Sessions :
        /\ Len(windows[ws]) = 1
        /\ Len(windows[ws][1]) % ItemSize # 0
        /\ pc[ws] = "recv"
        /\ Registered(ws)
        /\ audio_buffer[ws] # <<>>
        /\ sent[ws] = <<>>

\* C8: a coroutine that ended (peer close, read error, send error) has its
\* connection out of the registry and its buffer gone, and from then on it
\* receives nothing, starts no cycle and sends nothing; a receive on a closed
\* peer always ends the coroutine this way.
C8_ClosedIsFinal ==
    /\ [](\A ws \in Sessions :
            /\ pc[ws] \in {"connecting", "recv", "transcribe", "translate",
                            "send", "closed"}
            /\ pc[ws] = "closed" =>
                  ws \notin active_connections /\ ws \notin DOMAIN audio_buffer)
    /\ [][\A ws \in Sessions :
            /\ pc[ws] = "closed" =>
                  /\ pc'[ws] = "closed"
                  /\ received'[ws] = received[ws]
                  /\ windows'[ws] = windows[ws]
                  /\ sent'[ws] = sent[ws]
                  /\ delivered'[ws] = delivered[ws]
            /\ (pc[ws] = "recv" /\ peer[ws] = "closed" /\ pc'[ws] # pc[ws]) =>
                  pc'[ws] = "closed"]_vars
\* a connection that had received audio ended on a read error
C8_Witness ==
    \E ws \in Sessions :
        /\ pc[ws] = "closed"
        /\ peer[ws] = "open"
        /\ received[ws] # <<>>

\* C9: no window is shorter than BUFFER_SIZE, and a connection that goes
\* away while waiting with a partial buffer starts no cycle: its windows stay
\* as they were and its buffer entry is dropped.
C9_NoPartialWindow ==
    /\ [](\A ws \in Sessions : \A i \in 1..Len(windows[ws]) :
            Len(windows[ws][i]) >= BUFFER_SIZE)
    /\ [][\A ws \in Sessions :
            (pc[ws] = "recv" /\ pc'[ws] = "closed") =>
              /\ windows'[ws] = windows[ws]
              /\ ws \notin DOMAIN audio_buffer'
              /\ ws \notin active_connections']_vars
\* a connection went away with BUFFER_SIZE - 1 bytes buffered and no window
C9_Witness ==
    \E ws \in Sessions :
        /\ pc[ws] = "closed"
        /\ Len(received[ws]) = BUFFER_SIZE - 1
        /\ windows[ws] = <<>>

\* C10 as stated: handing the buffer to the pipeline and emptying it are one
\* step, so a connection in a processing cycle has an empty buffer.
C10_DrainIsAtomic ==
    \A ws \in Sessions :
        (pc[ws] \in InCycle /\ ws \in DOMAIN audio_buffer) => audio_buffer[ws] = <<>>
\* C10 (amended): the read leaves the buffer as it is and the clear is a
\* later step: throughout a cycle the buffer still holds exactly the window
\* that was read, and a non-empty buffer becomes empty only in the step that
\* ends its own connection's cycle.
C10_ReadThenClear ==
    /\ [](\A ws \in Sessions :
            pc[ws] \in InCycle =>
              /\ ws \in DOMAIN audio_buffer
              /\ audio_buffer[ws] = buffer[ws]
              /\ audio_buffer[ws] = LastWindow(ws))
    /\ [][\A ws \in Sessions :
            (/\ ws \in DOMAIN audio_buffer
             /\ ws \in DOMAIN audio_buffer'
             /\ audio_buffer[ws] # <<>>
             /\ audio_buffer'[ws] = <<>>) => CycleCompletes(ws)]_vars
\* the result is being sent while the bytes it came from are still buffered
C10_Witness ==
    \E ws \in Sessions :
        /\ pc[ws] = "send"
        /\ audio_buffer[ws] = LastWindow(ws)

\* C5 as stated: broadcast walks a snapshot of the set, so a connection
\* added or removed while broadcast is suspended in a send cannot make it
\* raise.
C5_BroadcastNeverRaises == bpc # "raised"

\* C6: a send that fails inside broadcast is not raised to the caller and
\* does not stop the loop: the step in which it fails goes on to the next
\* connected connection (or ends the loop), nothing but the set iterator's
\* own error ever leaves broadcast, and a broadcast that ran to its end has
\* called send_text for every connection registered from its start to its
\* end, whichever sends failed.
C6_SendFailureIsolated ==
    /\ [](bpc = "done" =>
            \A c \in bstart \cap active_connections :
                c \in bgot \cup bfailed \cup blost)
    /\ [][/\ (bfailed' # bfailed /\ Cardinality(active_connections) = bused) =>
              LET c == NextConnected(active_connections, client_state, bpos)
              IN  IF c = 0 THEN bpc' = "done" ELSE bpc' = "send" /\ bcur' = c
           /\ (bpc = "send" /\ bpc' = "raised") =>
              Cardinality(active_connections) # bused]_vars
\* a send failed, a later connection still got the payload, and the
\* broadcast ran to its end
C6_Witness ==
    /\ bpc = "done"
    /\ \E f \in bfailed : \E g \in bgot : f < g

\* C14: a result is handed to send_text only in the step in which
\* translate_text returns non-empty text for a window whose transcription was
\* non-empty; translate_text is called only in the step in which
\* transcribe_audio returns non-empty text; every result carries both texts.
C14_Result(r) == r[1] # <<>> /\ r[2] # <<>>
C14_SentOnlyAfterBoth ==
    /\ [](\A ws \in Sessions :
            /\ \A i \in 1..Len(sent[ws]) : C14_Result(sent[ws][i])
            /\ pc[ws] = "translate" => transcription[ws] # <<>>
            /\ pc[ws] = "send" =>
                  /\ transcription[ws] # <<>> /\ translation[ws] # <<>>
                  /\ sent[ws][Len(sent[ws])] = <<transcription[ws], translation[ws]>>)
    /\ [][\A ws \in Sessions :
            /\ sent'[ws] # sent[ws] =>
                  /\ pc[ws] = "translate" /\ pc'[ws] = "send"
                  /\ Len(sent'[ws]) = Len(sent[ws]) + 1
                  /\ translation'[ws] # <<>>
            /\ (pc'[ws] = "translate" /\ pc[ws] # "translate") =>
                  pc[ws] = "transcribe" /\ transcription'[ws] # <<>>
            /\ (pc'[ws] = "send" /\ pc[ws] # "send") => sent'[ws] # sent[ws]]_vars
\* a window was transcribed and translated and its result reached the peer
C14_Witness ==
    \E ws \in Sessions :
        /\ pc[ws] = "recv"
        /\ Len(delivered[ws]) = 1
        /\ C14_Result(delivered[ws][1])

\* C15: every result handed to a connection's send_text, and every result
\* that reaches its peer, was made from a window of that same connection; a
\* step that delivers to one connection delivers to no other.
C15_OwnResult(ws, r) == r[1][2][1] = ws /\ r[2][2][1] = ws
C15_ResultToOwnSession ==
    /\ [](\A ws \in Sessions :
            /\ \A i \in 1..Len(sent[ws]) : C15_OwnResult(ws, sent[ws][i])
            /\ \A i \in 1..Len(delivered[ws]) :
                  /\ C15_OwnResult(ws, delivered[ws][i])
                  /\ \E j \in 1..Len(sent[ws]) : sent[ws][j] = delivered[ws][i])
    /\ [][\A a \in Sessions :
            delivered'[a] # delivered[a] =>
              \A b \in Sessions \ {a} : delivered'[b] = delivered[b]]_vars
\* two connections are registered and each has received its own result
C15_Witness ==
    \E a, b \in Sessions :
        /\ a # b
        /\ Registered(a) /\ Registered(b)
        /\ delivered[a] # <<>> /\ delivered[b] # <<>>

\* C16: a connection's cycles never overlap: a window is handed to the
\* pipeline only from the receive, with the previous cycle over and the
\* buffer reset since (the new window is exactly what arrived after the
\* earlier windows), and while a cycle is in flight nothing is received and
\* nothing is appended.
C16_CyclesSerialized ==
    [][\A ws \in Sessions :
         /\ windows'[ws] # windows[ws] =>
               /\ pc[ws] = "recv" /\ pc'[ws] = "transcribe"
               /\ Len(windows'[ws]) = Len(windows[ws]) + 1
               /\ Concat(windows[ws]) \o windows'[ws][Len(windows'[ws])] = received'[ws]
         /\ pc[ws] \in InCycle =>
               /\ received'[ws] = received[ws]
               /\ windows'[ws] = windows[ws]
               /\ \/ BufferOf(audio_buffer', ws) = BufferOf(audio_buffer, ws)
                  \/ CycleCompletes(ws)
                  \/ pc'[ws] = "closed"]_vars
\* a second cycle is in flight, after the first one finished
C16_Witness ==
    \E ws \in Sessions :
        /\ pc[ws] \in InFlight
        /\ Len(windows[ws]) = 2

\* C17: a connection whose coroutine has run disconnect is out of the set,
\* no step of broadcast starts a send to it, and no payload reaches it.
C17_BroadcastStep == broadcastVars' # broadcastVars
C17_NoSendAfterRemoval ==
    /\ [](\A ws \in Sessions : pc[ws] = "closed" => ws \notin active_connections)
    /\ [][/\ (C17_BroadcastStep /\ bpc' = "send") =>
              /\ pc[bcur'] # "closed"
              /\ bcur' \in active_connections
              /\ bcur' \notin bgot' \cup bfailed' \cup blost'
           /\ \A c \in bgot' \ bgot : pc[c] # "closed"]_vars
\* a broadcast that began after a connection was removed ran to its end and
\* reached another connection
C17_Witness ==
    /\ bpc = "done"
    /\ bgot # {}
    /\ \E ws \in Sessions :
          pc[ws] = "closed" /\ client_state[ws] = "CONNECTED" /\ ws \notin bstart

\* C19: the connections with a buffer entry are exactly the registered
\* ones; both change only together, in connect (the entry starts empty) and
\* in disconnect.
C19_BufferKeysAreConnections ==
    /\ [](DOMAIN audio_buffer = active_connections)
    /\ [][\A ws \in Sessions :
            /\ (ws \in active_connections' /\ ws \notin active_connections) =>
                  /\ pc[ws] = "connecting" /\ pc'[ws] = "recv"
                  /\ ws \in DOMAIN audio_buffer' /\ audio_buffer'[ws] = <<>>
            /\ (ws \notin active_connections' /\ ws \in active_connections) =>
                  /\ pc'[ws] = "closed" /\ pc[ws] # "closed"
                  /\ ws \notin DOMAIN audio_buffer']_vars
\* one connection is registered with bytes buffered, another has been removed
C19_Witness ==
    \E a, b \in Sessions :
        /\ a \in active_connections /\ audio_buffer[a] # <<>>
        /\ pc[b] = "closed" /\ b \notin DOMAIN audio_buffer

\* C12: a disconnect for a connection that is not registered (a second
\* disconnect, or one for a connection never registered) changes neither
\* the registry nor any buffer and raises nothing; disconnecting twice
\* gives what disconnecting once gives.
C12_Twice(ws) ==
    LET ac == disconnect_connections(active_connections, ws)
        ab == disconnect_buffer(audio_buffer, ws)
    IN  /\ disconnect_connections(ac, ws) = ac
        /\ disconnect_buffer(ab, ws) = ab
        /\ ~disconnect_raises(ac, ab, ws)
C12_DisconnectIdempotent ==
    /\ [](\A ws \in Sessions : C12_Twice(ws))
    /\ [][\A ws \in Sessions :
            (last_call'.op = "disconnect" /\ last_call'.ws = ws /\ ~Known(ws)) =>
                /\ managerVars' = managerVars
                /\ ~last_call'.raised]_vars
\* a connection was registered, removed, and disconnect was called again
C12_Witness ==
    /\ last_call.op = "disconnect"
    /\ ~last_call.was
    /\ ~last_call.raised
    /\ client_state[last_call.ws] = "CONNECTED"

\* C13: on a connection that has no buffer (removed, or never registered)
\* add_audio_chunk and clear_audio_buffer change neither the registry nor
\* any buffer, get_audio_buffer returns the empty sequence, none raises.
C13_RemovedOpsAreNoOps ==
    [][\A ws \in Sessions :
        (last_call'.ws = ws /\ ws \notin DOMAIN audio_buffer) =>
            /\ last_call'.op \in {"add", "clear", "get"} =>
                  /\ managerVars' = managerVars
                  /\ ~last_call'.raised
            /\ last_call'.op = "get" => last_call'.result = <<>>]_vars
\* bytes were just handed to add_audio_chunk for a removed connection
C13_Witness ==
    /\ last_call.op = "add"
    /\ ~last_call.was
    /\ client_state[last_call.ws] = "CONNECTED"
    /\ last_call.ws \notin DOMAIN audio_buffer
    /\ received[last_call.ws] # <<>>

\* C11: the queue between the capture callback and the send loop has a
\* bounded length: it never holds as many chunks as the callback has been
\* let produce, because a full queue drops the newest chunk.
C11_QueueBounded == Len(audio_queue) < MaxQueue

\* C20: a queue-read timeout leaves the send loop waiting on the queue with
\* the flag set; once the server has closed the connection both loops end
\* and then cleanup runs to its end; from cleanup on the flag is false, the
\* stream is closed and the queue gets no further chunk.
C20_ClientWindsDown ==
    /\ [](send_event = "timeout" => spc = "get" /\ is_recording)
    /\ (conn = "closed" /\ cpc = "gather") ~> (spc = "done" /\ rpc = "done")
    /\ (conn = "closed" /\ cpc = "gather") ~> (cpc = "done")
    /\ [](cpc \in {"closing", "done"} => ~is_recording /\ stream = "off")
    /\ [][(cpc \in {"closing", "done"}) => audio_queue' = audio_queue]_vars
\* the send loop ended on ConnectionClosed and cleanup has finished, with
\* chunks still in the queue
C20_Witness ==
    /\ cpc = "done"
    /\ send_event = "closed"
    /\ ~is_recording
    /\ audio_queue # <<>>

\* C18 (as claimed): a connection whose send failed during a broadcast is
\* eventually out of the registry.
C18_FailedSendRemoves ==
    \A ws \in Sessions : (ws \in bfailed) ~> (ws \notin active_connections)

\* C18 (amended): a failed send is only recorded; no step of broadcast
\* changes the registry or a buffer, and a connection leaves the registry
\* only by a step of its own audio_endpoint, from its receive or its send.
C18_Removal(ws) ==
    (ws \in active_connections /\ ws \notin active_connections') =>
        /\ pc[ws] \in {"recv", "send"}
        /\ pc'[ws] = "closed"
        /\ broadcastVars' = broadcastVars
C18_OnlyEndpointRemoves ==
    /\ [][(broadcastVars' # broadcastVars) => managerVars' = managerVars]_vars
    /\ [][\A ws \in Sessions : C18_Removal(ws)]_vars
\* a broadcast has finished, the send to a connection failed in it, and that
\* connection is still registered, its endpoint waiting for an engine call
C18_Witness ==
    \E ws \in Sessions :
        /\ bpc = "done"
        /\ ws \in bfailed
        /\ ws \in active_connections
        /\ pc[ws] \in InFlight

====
